---- MODULE Spec2Model ----
(***************************************************************************)
(* A model of Glitch Studio (src/src/App.jsx): the React component's       *)
(* state, its handlers, the debounced render effect and the nine stages    *)
(* of the effects pipeline that the effect's timer callback runs on the    *)
(* hidden canvas.                                                          *)
(*                                                                         *)
(* Conventions.                                                            *)
(*  - A JavaScript value that may be null is a sequence of length 0 or 1   *)
(*    (None, Some(x)).                                                     *)
(*  - A bitmap is a record [width, height, data] whose data maps the       *)
(*    pixel index y*width+x (0-based, as in the code) to an RGBA record.   *)
(*  - Arrays and objects that React compares by identity (activeModes,     *)
(*    settings) carry a reference number beside their value.               *)
(*  - JavaScript is single threaded and React flushes the effects of a     *)
(*    state change before the next timer task runs, so a handler together  *)
(*    with the re-render and the effect it causes is one action.           *)
(*  - getLuminance is computed exactly, scaled by LumScale; the bitmaps    *)
(*    of the model use channel values for which the IEEE-754 result lies   *)
(*    on the same side of every threshold the model uses.                  *)
(***************************************************************************)
EXTENDS Integers, Sequences, FiniteSets, TLC

None == << >>
Some(x) == << x >>
IsSome(o) == Len(o) = 1
Get(o) == o[1]

Range(s) == { s[i] : i \in 1..Len(s) }
Min(a, b) == IF a < b THEN a ELSE b
Max(a, b) == IF a > b THEN a ELSE b
Abs(a) == IF a < 0 THEN -a ELSE a

\* Math.floor(a / b) for b > 0 (TLA+ \div already rounds towards minus infinity).
FloorDiv(a, b) == a \div b
\* Math.ceil(a / b) for b > 0.
CeilDiv(a, b) == -((-a) \div b)
\* Math.round(a / b) for a >= 0, b > 0 (halves round up).
RoundDiv(a, b) == (2 * a + b) \div (2 * b)

(***************************************************************************)
(* Colour utilities (App.jsx 8-37).                                        *)
(***************************************************************************)
HexDigits == <<"0","1","2","3","4","5","6","7","8","9","a","b","c","d","e","f">>
HexUpper == <<"0","1","2","3","4","5","6","7","8","9","A","B","C","D","E","F">>

IsHexDigit(c) == \E i \in 1..16 : HexDigits[i] = c \/ HexUpper[i] = c
HexValue(c) == (CHOOSE i \in 1..16 : HexDigits[i] = c \/ HexUpper[i] = c) - 1

\* parseInt(two hex digits, 16)
ParsePair(s, k) == 16 * HexValue(s[k]) + HexValue(s[k + 1])

\* The regular expression /^#?([a-f\d]{2})([a-f\d]{2})([a-f\d]{2})$/i : an
\* optional '#', then exactly six hexadecimal digits. A colour string is a
\* sequence of one-character strings.
hexToRgb(hex) ==
  LET body == IF Len(hex) > 0 /\ hex[1] = "#" THEN Tail(hex) ELSE hex
  IN IF Len(body) = 6 /\ \A k \in 1..6 : IsHexDigit(body[k])
       THEN Some([r |-> ParsePair(body, 1), g |-> ParsePair(body, 3), b |-> ParsePair(body, 5)])
       ELSE None

LumScale == 10000
\* getLuminance(r, g, b) * LumScale
getLuminance(r, g, b) == 2126 * r + 7152 * g + 722 * b

bayerMatrix4x4 ==
  << <<0, 8, 2, 10>>, <<12, 4, 14, 6>>, <<3, 11, 1, 9>>, <<15, 7, 13, 5>> >>

vibrantColors ==
  << [r |-> 255, g |-> 0, b |-> 100], [r |-> 0, g |-> 255, b |-> 200],
     [r |-> 255, g |-> 200, b |-> 0], [r |-> 100, g |-> 100, b |-> 255],
     [r |-> 50, g |-> 255, b |-> 50], [r |-> 255, g |-> 100, b |-> 0] >>

Px(r, g, b, a) == [r |-> r, g |-> g, b |-> b, a |-> a]
Gray(v) == Px(v, v, v, 255)
Lum(p) == getLuminance(p.r, p.g, p.b)

\* A Uint8ClampedArray store of an integer value.
Clamp8(v) == Min(255, Max(0, v))

\* TLC evaluates a function constructor anew at every application; Table(f)
\* is the same function as an evaluated table.
Table(f) == f @@ << >>

Bitmap(w, h, d) == [width |-> w, height |-> h, data |-> Table(d)]
\* A freshly created or resized canvas bitmap: transparent black.
Blank(w, h) == Bitmap(w, h, [i \in 0..(w * h - 1) |-> Px(0, 0, 0, 0)])

\* <<q, r>> with a * b = q * m + r and 0 <= r < m, for a, b >= 0 and
\* 0 < m < 2^30, computed by doubling on the bits of the small factor a so
\* that no intermediate value leaves 32 bits.
RECURSIVE MulDivMod(_, _, _)
MulDivMod(a, b, m) ==
  IF a = 0 THEN <<0, 0>>
  ELSE LET h == MulDivMod(a \div 2, b, m)
           dq == 2 * h[1] + ((2 * h[2]) \div m)
           dr == (2 * h[2]) % m
       IN IF a % 2 = 0 THEN <<dq, dr>>
          ELSE <<dq + (b \div m) + ((dr + (b % m)) \div m), (dr + (b % m)) % m>>

\* The value stored in a Uint8ClampedArray for the real number n / d (d > 0):
\* clamped to 0..255 and rounded to the nearest integer, halves to even.
StoreClamped(n, d) ==
  IF n <= 0 THEN 0
  ELSE IF n >= 255 * d THEN 255
  ELSE LET q == n \div d
           r == n % d
       IN IF 2 * r < d THEN q
          ELSE IF 2 * r > d THEN q + 1
          ELSE IF q % 2 = 0 THEN q ELSE q + 1

\* Floor of the square root of n, 0 <= n < 2^20, by bisection on lo..hi.
RECURSIVE SqrtBetween(_, _, _)
SqrtBetween(n, lo, hi) ==
  IF lo >= hi THEN lo
  ELSE LET mid == (lo + hi + 1) \div 2
       IN IF mid * mid <= n THEN SqrtBetween(n, mid, hi) ELSE SqrtBetween(n, lo, mid - 1)
ISqrt(n) == SqrtBetween(n, 0, 1023)

(***************************************************************************)
(* Settings (App.jsx 58-108). Colour strings are character sequences.      *)
(***************************************************************************)
Hex000000 == <<"#","0","0","0","0","0","0">>
HexFFFFFF == <<"#","f","f","f","f","f","f">>
Hex00FF00 == <<"#","0","0","f","f","0","0">>
Hex1A1A1A == <<"#","1","a","1","a","1","a">>
HexFF0055 == <<"#","f","f","0","0","5","5">>

DefaultSettings ==
  [ pixelSize |-> 4,
    ditherAlgo |-> "floyd", ditherType |-> "bw", ditherThreshold |-> 128,
    ditherPixelSize |-> 2, colorA |-> Hex000000, colorB |-> HexFFFFFF,
    contrast |-> 20, brightness |-> 10, grain |-> 0,
    offset |-> 5, direction |-> "horizontal",
    scanlineIntensity |-> 50, scanlineThickness |-> 2, vignette |-> 50,
    dotSize |-> 8, invertHalftone |-> FALSE,
    sortThreshold |-> 50, sortDirection |-> "horizontal",
    edgeThreshold |-> 30, edgeColor |-> Hex00FF00, edgeMode |-> "color",
    outlineContrast |-> 50, outlineLevels |-> 3, outlineThickness |-> 2,
    outlineBg |-> Hex1A1A1A, outlineColor |-> HexFFFFFF,
    outlineOffsetCount |-> 0, outlineOffsetX |-> 10, outlineOffsetY |-> 10,
    outlineOffsetColor |-> HexFF0055 ]

\* The result of one stage: ok is FALSE when the stage threw, and then canvas
\* is the canvas as the exception left it.
Done(cv) == [ok |-> TRUE, canvas |-> cv]
Threw(cv) == [ok |-> FALSE, canvas |-> cv]

(***************************************************************************)
(* Pixel stage (App.jsx 229-243).                                          *)
(***************************************************************************)
\* drawImage(src, 0, 0, w, h) onto a cleared w x h bitmap without smoothing:
\* destination pixel (x, y) takes the source pixel under its centre. The
\* smoothing filter of the downscaling draw is the browser's choice; the model
\* samples the source pixel under the centre there too.
Resample(src, w, h) ==
  Bitmap(w, h,
    [i \in 0..(w * h - 1) |->
       LET x == i % w
           y == i \div w
           sx == ((2 * x + 1) * src.width) \div (2 * w)
           sy == ((2 * y + 1) * src.height) \div (2 * h)
       IN src.data[sy * src.width + sx]])

factor(s) == Max(1, s.pixelSize)
tinyW(cv, s) == FloorDiv(cv.width, factor(s))
tinyH(cv, s) == FloorDiv(cv.height, factor(s))

\* tempCanvas after tempCtx.drawImage(canvas, 0, 0, tinyW, tinyH)
tempCanvas(cv, s) ==
  IF tinyW(cv, s) = 0 \/ tinyH(cv, s) = 0
    THEN Blank(tinyW(cv, s), tinyH(cv, s))
    ELSE Resample(cv, tinyW(cv, s), tinyH(cv, s))

\* A stage that leaves the downsampled bitmap as the buffer.
pixelStageTiny(cv, s) == Done(tempCanvas(cv, s))

\* ctx.clearRect, then ctx.drawImage(tempCanvas, 0, 0, currentW, currentH),
\* which throws InvalidStateError for a source canvas of width or height 0.
pixelStage(cv, s) ==
  LET tmp == tempCanvas(cv, s)
  IN IF tmp.width = 0 \/ tmp.height = 0
       THEN Threw(Blank(cv.width, cv.height))
       ELSE Done(Resample(tmp, cv.width, cv.height))

(***************************************************************************)
(* Mono stage (App.jsx 246-258).                                           *)
(***************************************************************************)
\* contrastFactor = (259 * (c + 255)) / (255 * (259 - c)) as <<num, den>>
\* with den >= 0 (den = 0 is JavaScript's Infinity, or NaN when num = 0 too).
contrastFactor(c) ==
  LET n == 259 * (c + 255)
      d == 255 * (259 - c)
  IN IF d < 0 THEN <<-n, -d>> ELSE <<n, d>>

\* The value stored in the 8-bit array for the real number whole + frac / m
\* (0 <= frac < m), after Math.min(255, Math.max(0, .)).
StoreMixed(whole, frac, m) ==
  IF whole < 0 THEN 0
  ELSE IF whole >= 255 THEN 255
  ELSE IF 2 * frac < m THEN whole
  ELSE IF 2 * frac > m THEN whole + 1
  ELSE IF whole % 2 = 0 THEN whole ELSE whole + 1

Huge == 100000

\* cf * (g - 128) for g = gs / LumScale, as <<whole, frac, m>>: the real
\* number whole + frac / m with 0 <= frac < m. Infinity is <<Huge, 0, 1>>;
\* -Infinity and NaN (which every later store turns into 0) are <<-Huge, 0, 1>>.
\* The products stay within 32 bits for the contrast values the sliders
\* offer (-50 .. 200).
ContrastRaw(cf, gs) ==
  LET a == gs - 128 * LumScale
      num == cf[1]
      den == cf[2]
  IN IF den = 0
       THEN IF (num > 0 /\ a > 0) \/ (num < 0 /\ a < 0)
              THEN <<Huge, 0, 1>> ELSE <<-Huge, 0, 1>>
       ELSE LET m == LumScale * den
                \* |num * a| / m = (|num| * ai) / den + (|num| * af) / m
                ai == Abs(a) \div LumScale
                af == Abs(a) % LumScale
                q1 == (Abs(num) * ai) \div den
                r1 == (Abs(num) * ai) % den
                rest == r1 * LumScale + Abs(num) * af
                pq == q1 + (rest \div m)
                pr == rest % m
                neg == (num < 0) # (a < 0)
            IN IF ~neg THEN <<pq, pr, m>>
               ELSE IF pr = 0 THEN <<-pq, 0, m>>
               ELSE <<-pq - 1, m - pr, m>>

\* noise[i] is the value of (Math.random() - 0.5) * grain drawn for pixel i.
bwStage(cv, s, noise) ==
  LET cf == contrastFactor(s.contrast)
  IN Done(Bitmap(cv.width, cv.height,
       [i \in 0..(cv.width * cv.height - 1) |->
          LET p == cv.data[i]
              c == ContrastRaw(cf, Lum(p) + s.brightness * LumScale)
              n == IF s.grain > 0 THEN noise[i] ELSE 0
              v == StoreMixed(c[1] + 128 + n, c[2], c[3])
          IN Px(v, v, v, p.a)]))

(***************************************************************************)
(* Pixel sort stage (App.jsx 261-316).                                     *)
(***************************************************************************)
\* Array.prototype.sort with the comparator of luminance differences: a
\* stable sort by ascending luminance.
RECURSIVE sortRow(_)
sortRow(arr) ==
  IF Len(arr) <= 1 THEN arr
  ELSE LET n == Len(arr)
           front == sortRow(SubSeq(arr, 1, n - 1))
           p == arr[n]
           k == Cardinality({j \in 1..(n - 1) : Lum(front[j]) <= Lum(p)})
       IN SubSeq(front, 1, k) \o <<p>> \o SubSeq(front, k + 1, n - 1)

\* An inner loop without the luminance test: the span runs to the row's end.
SpanToRowEnd(px, e, thresh) == Len(px)

\* The inner while loop: the first index >= e (0-based) that ends the span.
RECURSIVE SpanEnd(_, _, _)
SpanEnd(px, e, thresh) ==
  IF e < Len(px) /\ Lum(px[e + 1]) > thresh * LumScale
    THEN SpanEnd(px, e + 1, thresh)
    ELSE e

\* The outer while loop from position start (0-based) over the line px.
RECURSIVE SortSpans(_, _, _)
SortSpans(px, start, thresh) ==
  IF start >= Len(px) THEN px
  ELSE IF Lum(px[start + 1]) > thresh * LumScale
    THEN LET end == SpanEnd(px, start + 1, thresh)
             span == sortRow(SubSeq(px, start + 1, end))
         IN SortSpans(SubSeq(px, 1, start) \o span \o SubSeq(px, end + 1, Len(px)),
                      end, thresh)
    ELSE SortSpans(px, start + 1, thresh)

\* rowPixels / colPixels as read from the bitmap
rowPixels(cv, y) == [x \in 1..cv.width |-> cv.data[y * cv.width + (x - 1)]]
colPixels(cv, x) == [y \in 1..cv.height |-> cv.data[(y - 1) * cv.width + x]]

\* The write back copies r, g and b of the sorted line and leaves data[i+3].
sortStage(cv, s) ==
  LET thresh == s.sortThreshold
      w == cv.width
      h == cv.height
  IN IF s.sortDirection = "horizontal"
       THEN LET rows == [y \in 0..(h - 1) |-> SortSpans(rowPixels(cv, y), 0, thresh)]
            IN Done(Bitmap(w, h,
                 [i \in 0..(w * h - 1) |->
                    LET q == rows[i \div w][(i % w) + 1]
                    IN Px(q.r, q.g, q.b, cv.data[i].a)]))
       ELSE LET cols == [x \in 0..(w - 1) |-> SortSpans(colPixels(cv, x), 0, thresh)]
            IN Done(Bitmap(w, h,
                 [i \in 0..(w * h - 1) |->
                    LET q == cols[i % w][(i \div w) + 1]
                    IN Px(q.r, q.g, q.b, cv.data[i].a)]))

(***************************************************************************)
(* Outline stage (App.jsx 319-388).                                        *)
(***************************************************************************)
\* A canvas fillStyle assignment: a string that is not a CSS colour is
\* ignored and the style keeps its initial value, opaque black. The model's
\* CSS colours are the strings '#' + six hexadecimal digits.
fillStyle(str) ==
  IF Len(str) = 7 /\ str[1] = "#" /\ IsSome(hexToRgb(str))
    THEN Get(hexToRgb(str))
    ELSE [r |-> 0, g |-> 0, b |-> 0]

levels(s) == Max(2, s.outlineLevels)

\* map[i] = Math.round(gray / levelStep), levelStep = 255 / (levels - 1),
\* for the contrast product c = <<whole, frac, m>> of pixel i
posterLevel(c, lv) ==
  LET whole == c[1] + 128
      \* gray clamped to 0..255, as gw + gf / m
      gw == IF whole < 0 THEN 0 ELSE IF whole >= 255 THEN 255 ELSE whole
      gf == IF whole < 0 \/ whole >= 255 THEN 0 ELSE c[2]
      t == MulDivMod(lv, gf, c[3])
      \* gray * (levels - 1) = A + t[2] / m
      A == gw * lv + t[1]
  IN Clamp8((2 * A + 255 + ((2 * t[2]) \div c[3])) \div 510)

posterMap(cv, s) ==
  Table([i \in 0..(cv.width * cv.height - 1) |->
           posterLevel(ContrastRaw(contrastFactor(s.outlineContrast), Lum(cv.data[i])),
                       levels(s) - 1)])

\* edges[i] for the posterized map: 1 where the right or the lower neighbour
\* has another level
edgesOf(map, w, h) ==
  Table([i \in 0..(w * h - 1) |->
           IF ((i % w) < w - 1 /\ map[i + 1] # map[i])
                \/ ((i \div w) < h - 1 /\ map[i + w] # map[i])
             THEN 1 ELSE 0])

edgeMap(cv, s) == edgesOf(posterMap(cv, s), cv.width, cv.height)

range(s) == CeilDiv(s.outlineThickness, 2)

\* The pixel indexes ni / 4 that the square of edge pixel i writes.
SquareOf(cv, s, i) ==
  LET w == cv.width
      y == i \div w
      x == i % w
  IN { (y + dy) * w + (x + dx) : dy \in (-range(s))..range(s), dx \in (-range(s))..range(s) }
       \cap (0..(w * cv.height - 1))

\* The pixels of offData that are written (alpha 255) for the edge map em,
\* all others staying transparent.
paintedBy(em, cv, s) == UNION { SquareOf(cv, s, i) : i \in { j \in DOMAIN em : em[j] = 1 } }

offPainted(cv, s) == paintedBy(edgeMap(cv, s), cv, s)

\* drawing a pixel of colour c with globalAlpha 0.6 over the opaque pixel d
Blend(c, d) ==
  Px(RoundDiv(6 * c.r + 4 * d.r, 10), RoundDiv(6 * c.g + 4 * d.g, 10),
     RoundDiv(6 * c.b + 4 * d.b, 10), 255)

\* ctx.drawImage(echoC, offsetX * k, offsetY * k) for k = count .. 1
RECURSIVE drawEchoes(_, _, _, _, _)
drawEchoes(data, cv, s, painted, k) ==
  IF k <= 0 THEN data
  ELSE LET w == cv.width
           h == cv.height
           echoCol == fillStyle(s.outlineOffsetColor)
           drawn == Table([i \in 0..(w * h - 1) |->
                      LET sx == (i % w) - s.outlineOffsetX * k
                          sy == (i \div w) - s.outlineOffsetY * k
                      IN IF sx >= 0 /\ sx < w /\ sy >= 0 /\ sy < h /\ (sy * w + sx) \in painted
                           THEN Blend(echoCol, data[i])
                           ELSE data[i]])
       IN drawEchoes(drawn, cv, s, painted, k - 1)

\* The stage for the painted pixels of offData and the parsed line colour.
outlineDraw(cv, s, painted, lineCol) ==
  LET w == cv.width
      h == cv.height
      bg == fillStyle(s.outlineBg)
      filled == Table([i \in 0..(w * h - 1) |-> Px(bg.r, bg.g, bg.b, 255)])
      echoed == IF s.outlineOffsetCount > 0
                  THEN drawEchoes(filled, cv, s, painted, s.outlineOffsetCount)
                  ELSE filled
  IN IF painted # {} /\ ~IsSome(lineCol)
       THEN Threw(cv)     \* lineCol.r of null, before the canvas is touched
       ELSE Done(Bitmap(w, h,
              [i \in 0..(w * h - 1) |->
                 IF i \in painted
                   THEN Px(Get(lineCol).r, Get(lineCol).g, Get(lineCol).b, 255)
                   ELSE echoed[i]]))

outlineStage(cv, s) == outlineDraw(cv, s, offPainted(cv, s), hexToRgb(s.outlineColor))

(***************************************************************************)
(* Edge detection stage (App.jsx 391-416).                                 *)
(***************************************************************************)
\* grayscale[i]: the luminance stored in a Uint8ClampedArray
grayscale(cv) ==
  Table([i \in 0..(cv.width * cv.height - 1) |-> StoreClamped(Lum(cv.data[i]), LumScale)])

getP(cv, gs, x, y) ==
  IF x < 0 \/ x >= cv.width \/ y < 0 \/ y >= cv.height THEN 0 ELSE gs[y * cv.width + x]

sobelGx(cv, gs, x, y) ==
  -1 * getP(cv, gs, x - 1, y - 1) + getP(cv, gs, x + 1, y - 1)
  - 2 * getP(cv, gs, x - 1, y) + 2 * getP(cv, gs, x + 1, y)
  - getP(cv, gs, x - 1, y + 1) + getP(cv, gs, x + 1, y + 1)

sobelGy(cv, gs, x, y) ==
  -1 * getP(cv, gs, x - 1, y - 1) - 2 * getP(cv, gs, x, y - 1) - getP(cv, gs, x + 1, y - 1)
  + getP(cv, gs, x - 1, y + 1) + 2 * getP(cv, gs, x, y + 1) + getP(cv, gs, x + 1, y + 1)

\* Math.sqrt(gx*gx + gy*gy) > thresh
isEdge(cv, gs, thresh, i) ==
  LET gx == sobelGx(cv, gs, i % cv.width, i \div cv.width)
      gy == sobelGy(cv, gs, i % cv.width, i \div cv.width)
  IN thresh < 0 \/ gx * gx + gy * gy > thresh * thresh

edgeStage(cv, s) ==
  LET w == cv.width
      h == cv.height
      gs == grayscale(cv)
      neon == hexToRgb(s.edgeColor)
      edges == { i \in 0..(w * h - 1) : isEdge(cv, gs, s.edgeThreshold, i) }
  IN IF edges # {} /\ s.edgeMode = "color" /\ ~IsSome(neon)
       THEN Threw(cv)     \* neon.r of null, before putImageData
       ELSE Done(Bitmap(w, h,
              [i \in 0..(w * h - 1) |->
                 IF i \in edges
                   THEN IF s.edgeMode = "color"
                          THEN Px(Get(neon).r, Get(neon).g, Get(neon).b, 255)
                          ELSE Px(255, 255, 255, 255)
                   ELSE Px(0, 0, 0, 255)]))

(***************************************************************************)
(* Halftone stage (App.jsx 419-442).                                       *)
(***************************************************************************)
step(s) == Max(4, s.dotSize)

\* 2 * radius of the dot of the cell at (cx, cy) as the fraction <<N, M>>:
\* radius = lum * step / 2 or (1 - lum) * step / 2 with lum = luminance / 255.
dotDiameter(cv, s, cx, cy) ==
  LET st == step(s)
      sy == Min(cv.height - 1, cy + (st \div 2))
      sx == Min(cv.width - 1, cx + (st \div 2))
      l == Lum(cv.data[sy * cv.width + sx])
      v == IF s.invertHalftone THEN l ELSE 255 * LumScale - l
  IN <<v * st, 255 * LumScale>>

\* Math.floor(q * q / (255 * LumScale)) for 0 <= q < 255 * LumScale, with
\* q = u * 1000 + v split so that no product leaves 32 bits.
SquareOver(q) ==
  LET u == q \div 1000
      v == q % 1000
      \* q*q / 2550000 = u*u*100/255 + u*v/1275 + v*v/2550000
      fr == ((u * u * 100) % 255) * LumScale + ((u * v) % 1275) * 2000 + v * v
  IN ((u * u * 100) \div 255) + ((u * v) \div 1275) + (fr \div (255 * LumScale))

\* d2 <= (N / M)^2 in exact arithmetic, for d2 >= 0, M = 255 * LumScale and
\* N / M < 64
WithinSquared(d2, N, M) ==
  LET qi == N \div M
      qr == N % M
      t == MulDivMod(2 * qi, qr, M)
      e == d2 - qi * qi - t[1]
  IN e <= 0 \/ (e = 1 /\ t[2] + SquareOver(qr) >= M)

\* Whether the filled arc of the pixel's cell covers pixel (px, py). The
\* rasteriser's anti-aliasing is the browser's; the model fills the pixels
\* whose centre lies within the radius of the arc's centre.
dotCovers(cv, s, px, py) ==
  LET st == step(s)
      cx == (px \div st) * st
      cy == (py \div st) * st
      dia == dotDiameter(cv, s, cx, cy)
      dx == 2 * px + 1 - 2 * cx - st
      dy == 2 * py + 1 - 2 * cy - st
  IN /\ dia[1] > dia[2]     \* radius > 0.5
     /\ WithinSquared(dx * dx + dy * dy, dia[1], dia[2])

halftoneStage(cv, s) ==
  LET fg == IF s.invertHalftone THEN 255 ELSE 0
      bgv == IF s.invertHalftone THEN 0 ELSE 255
  IN Done(Bitmap(cv.width, cv.height,
       [i \in 0..(cv.width * cv.height - 1) |->
          IF dotCovers(cv, s, i % cv.width, i \div cv.width)
            THEN Px(fg, fg, fg, 255) ELSE Px(bgv, bgv, bgv, 255)]))

(***************************************************************************)
(* Chromatic stage (App.jsx 505-523).                                      *)
(***************************************************************************)
\* A clamp without the Math.min: only the lower bound is enforced.
clampLow(v, hi) == Max(0, v)

\* Math.min(hi, Math.max(0, v))
clampTo(v, hi) == Min(hi, Max(0, v))

\* The clamped coordinates <<rx, ry>> and <<bx, by>> sampled for pixel (x, y).
redSample(cv, s, x, y) ==
  IF s.direction = "vertical"
    THEN <<clampTo(x, cv.width - 1), clampTo(y + s.offset, cv.height - 1)>>
    ELSE <<clampTo(x + s.offset, cv.width - 1), clampTo(y, cv.height - 1)>>

blueSample(cv, s, x, y) ==
  IF s.direction = "vertical"
    THEN <<clampTo(x, cv.width - 1), clampTo(y - s.offset, cv.height - 1)>>
    ELSE <<clampTo(x - s.offset, cv.width - 1), clampTo(y, cv.height - 1)>>

\* The pixel whose channels data[k * 4 + c] reads: an index outside the array
\* reads undefined, which a Uint8ClampedArray stores as 0.
readPixel(cv, k) == IF k \in DOMAIN cv.data THEN cv.data[k] ELSE Px(0, 0, 0, 0)

chromaticStage(cv, s) ==
  LET w == cv.width
  IN Done(Bitmap(w, cv.height,
       [i \in 0..(w * cv.height - 1) |->
          LET rs == redSample(cv, s, i % w, i \div w)
              bs == blueSample(cv, s, i % w, i \div w)
          IN Px(readPixel(cv, rs[2] * w + rs[1]).r, cv.data[i].g,
                readPixel(cv, bs[2] * w + bs[1]).b, 255)]))

(***************************************************************************)
(* Dither stage (App.jsx 445-502).                                         *)
(***************************************************************************)
\* grayBuffer is a Float32Array. The model keeps its values in fixed point,
\* GrayUnit steps to 1 (the spacing of 32-bit floats between 128 and 256),
\* rounding each store to the nearest step.
GrayUnit == 65536

\* Math.round-like rounding of n / d to the nearest integer, for d > 0.
RoundNearest(n, d) == IF n >= 0 THEN (2 * n + d) \div (2 * d) ELSE -((2 * (-n) + d) \div (2 * d))

\* luminance * GrayUnit, rounded: GrayUnit / LumScale = 4096 / 625
grayBuffer(cv) ==
  Table([i \in 0..(cv.width * cv.height - 1) |->
     LET l == Lum(cv.data[i])
     IN (l \div 625) * 4096 + RoundNearest((l % 625) * 4096, 625)])

\* Math.floor(Math.abs(Math.sin(x * 12.9898 + y * 78.233) * 43758.5453)) % 6
\* for 0 <= x, y <= 4, row y column x (evaluated in double precision).
randomHash ==
  << <<0, 3, 0, 1, 0>>,
     <<4, 3, 5, 5, 0>>,
     <<3, 4, 3, 1, 2>>,
     <<2, 2, 1, 4, 0>>,
     <<5, 1, 5, 4, 5>> >>

\* grayBuffer[j] += v when the guard holds
addTo(gb, guard, j, v) == IF guard THEN [gb EXCEPT ![j] = @ + v] ELSE gb

\* A Floyd-Steinberg branch without the addition to the lower right
\* neighbour.
floydNoCorner(gb, w, h, x, y, error) ==
  LET i == y * w + x
      g1 == addTo(gb, x + 1 < w, i + 1, RoundNearest(error * 7, 16))
      g2 == addTo(g1, y + 1 < h /\ x - 1 >= 0, i + w - 1, RoundNearest(error * 3, 16))
  IN addTo(g2, y + 1 < h, i + w, RoundNearest(error * 5, 16))

\* The additions of the Floyd-Steinberg branch at pixel i = y * w + x
floyd(gb, w, h, x, y, error) ==
  LET i == y * w + x
      g1 == addTo(gb, x + 1 < w, i + 1, RoundNearest(error * 7, 16))
      g2 == addTo(g1, y + 1 < h /\ x - 1 >= 0, i + w - 1, RoundNearest(error * 3, 16))
      g3 == addTo(g2, y + 1 < h, i + w, RoundNearest(error * 5, 16))
  IN addTo(g3, y + 1 < h /\ x + 1 < w, i + w + 1, RoundNearest(error * 1, 16))

\* The additions of the Atkinson branch, f = 1/8
atkinson(gb, w, h, x, y, error) ==
  LET i == y * w + x
      e == RoundNearest(error, 8)
      g1 == addTo(gb, x + 1 < w, i + 1, e)
      g2 == addTo(g1, x + 2 < w, i + 2, e)
      g3 == addTo(g2, x - 1 >= 0 /\ y + 1 < h, i + w - 1, e)
      g4 == addTo(g3, y + 1 < h, i + w, e)
      g5 == addTo(g4, x + 1 < w /\ y + 1 < h, i + w + 1, e)
  IN addTo(g5, y + 2 < h, i + 2 * w, e)

\* grayBuffer after the additions of pixel i with the given error
diffuse(gb, w, h, i, error, algo) ==
  IF algo = "floyd" THEN floyd(gb, w, h, i % w, i \div w, error)
                    ELSE atkinson(gb, w, h, i % w, i \div w, error)

\* A loop body whose threshold branch diffuses its error like Floyd-Steinberg.
ditherPixelDiffusing(lit, gb, w, h, i, s) ==
  IF s.ditherAlgo = "bayer"
    THEN LET map == (gb[i] * 17) \div (255 * GrayUnit)
         IN << [lit EXCEPT ![i] = map > bayerMatrix4x4[((i \div w) % 4) + 1][((i % w) % 4) + 1]],
               gb >>
  ELSE LET oldVal == gb[i]
           newVal == IF oldVal > s.ditherThreshold * GrayUnit THEN 255 * GrayUnit ELSE 0
           error == oldVal - newVal
       IN << [lit EXCEPT ![i] = (newVal = 255 * GrayUnit)],
             diffuse(gb, w, h, i, error, IF s.ditherAlgo = "atkinson" THEN "atkinson" ELSE "floyd") >>

\* The loop body for pixel i: <<isLight per pixel, grayBuffer>> after it.
ditherPixel(lit, gb, w, h, i, s) ==
  IF s.ditherAlgo = "bayer"
    THEN LET map == (gb[i] * 17) \div (255 * GrayUnit)
         IN << [lit EXCEPT ![i] = map > bayerMatrix4x4[((i \div w) % 4) + 1][((i % w) % 4) + 1]],
               gb >>
  ELSE IF s.ditherAlgo = "threshold"
    THEN << [lit EXCEPT ![i] = gb[i] > s.ditherThreshold * GrayUnit], gb >>
  ELSE LET oldVal == gb[i]
           newVal == IF oldVal > s.ditherThreshold * GrayUnit THEN 255 * GrayUnit ELSE 0
           error == oldVal - newVal
       IN << [lit EXCEPT ![i] = (newVal = 255 * GrayUnit)],
             diffuse(gb, w, h, i, error, s.ditherAlgo) >>

\* The raster scan over pixels 0 .. n-1.
RECURSIVE ditherScan(_, _, _)
ditherScan(cv, s, n) ==
  IF n = 0
    THEN << Table([i \in 0..(cv.width * cv.height - 1) |-> FALSE]), grayBuffer(cv) >>
    ELSE \* the state prev after pixels 0 .. n-2, then the body for pixel n-1
         CHOOSE next \in { ditherPixel(prev[1], prev[2], cv.width, cv.height, n - 1, s)
                             : prev \in {ditherScan(cv, s, n - 1)} } : TRUE

isLight(cv, s) == ditherScan(cv, s, cv.width * cv.height)[1]

ditherStage(cv, s) ==
  LET w == cv.width
      h == cv.height
      lit == isLight(cv, s)
      dark == hexToRgb(s.colorA)
      light == hexToRgb(s.colorB)
      \* the pixels whose colour is read from t = isLight ? light : dark
      usesT == { i \in 0..(w * h - 1) : ~(s.ditherType = "random" /\ lit[i]) /\ s.ditherType # "bw" }
  IN IF \E i \in usesT : ~IsSome(IF lit[i] THEN light ELSE dark)
       THEN Threw(cv)     \* t.r of null, before putImageData
       ELSE Done(Bitmap(w, h,
              [i \in 0..(w * h - 1) |->
                 IF s.ditherType = "random" /\ lit[i]
                   THEN LET col == vibrantColors[randomHash[(i \div w) + 1][(i % w) + 1] + 1]
                        IN Px(col.r, col.g, col.b, 255)
                 ELSE IF s.ditherType = "bw"
                   THEN LET v == IF lit[i] THEN 255 ELSE 0 IN Px(v, v, v, 255)
                 ELSE LET t == Get(IF lit[i] THEN light ELSE dark)
                      IN Px(t.r, t.g, t.b, 255)]))

(***************************************************************************)
(* CRT stage (App.jsx 526-549).                                            *)
(***************************************************************************)
\* (y % thick) === 0 in JavaScript: false for thick = 0 (NaN)
isScan(y, thick) == thick # 0 /\ y % Abs(thick) = 0

\* d / maxD in thousandths, rounded down: the distance of (x, y) from the
\* centre (w/2, h/2) over the distance of a corner from the centre.
vignetteRatio(w, h, x, y) ==
  LET d2 == (2 * x - w) * (2 * x - w) + (2 * y - h) * (2 * y - h)
  IN ISqrt((d2 * 1000000) \div (w * w + h * h))

\* The byte stored by data[i] *= mult
crtValue(v, ratio, s, scan) ==
  LET dim == 100000 - ratio * s.vignette           \* dim * 100000
      keep == IF scan THEN 100 - s.scanlineIntensity ELSE 100    \* percent
  IN IF (dim < 0) # (keep < 0) THEN 0
     ELSE LET \* v * |dim| * |keep| / 10^7, split so that no product leaves 32 bits
              xq == (v * Abs(dim)) \div 100000
              xr == (v * Abs(dim)) % 100000
              t == xq * Abs(keep)
              rest == (t % 100) * 100000 + xr * Abs(keep)
          IN StoreMixed((t \div 100) + (rest \div 10000000), rest % 10000000, 10000000)

crtStage(cv, s) ==
  LET w == cv.width
      h == cv.height
  IN Done(Bitmap(w, h,
       [i \in 0..(w * h - 1) |->
          LET p == cv.data[i]
              ratio == vignetteRatio(w, h, i % w, i \div w)
              scan == isScan(i \div w, s.scanlineThickness)
          IN Px(crtValue(p.r, ratio, s, scan), crtValue(p.g, ratio, s, scan),
                crtValue(p.b, ratio, s, scan), p.a)]))

(***************************************************************************)
(* The timer callback (App.jsx 186-555).                                   *)
(***************************************************************************)
pipelineOrder ==
  <<"pixel", "bw", "sort", "outline", "edge", "halftone", "dither", "chromatic", "crt">>

includes(arr, x) == \E k \in 1..Len(arr) : arr[k] = x

\* canvas.width = w; canvas.height = h; drawImage(img, 0, 0, w, h), mirrored
\* when isFlipped.
baseDraw(img, w, h, flipped) ==
  LET drawn == Resample(img, w, h)
  IN IF flipped
       THEN Bitmap(w, h, [i \in 0..(w * h - 1) |->
                            drawn.data[(i \div w) * w + (w - 1 - (i % w))]])
       ELSE drawn

\* The branch of the forEach body taken for mode.
applyStage(mode, cv, s, noise) ==
  CASE mode = "pixel" -> pixelStage(cv, s)
    [] mode = "bw" -> bwStage(cv, s, noise)
    [] mode = "sort" -> sortStage(cv, s)
    [] mode = "outline" -> outlineStage(cv, s)
    [] mode = "edge" -> edgeStage(cv, s)
    [] mode = "halftone" -> halftoneStage(cv, s)
    [] mode = "dither" -> ditherStage(cv, s)
    [] mode = "chromatic" -> chromaticStage(cv, s)
    [] mode = "crt" -> crtStage(cv, s)

Dims(cv) == <<cv.width, cv.height, Cardinality(DOMAIN cv.data)>>

\* pipelineOrder.forEach from position k on. st records the canvas, the
\* stages that ran to their end (executed), the stage that threw, if any, and
\* for each completed stage the dimensions of the buffer it read and of the
\* buffer it left (handoffs).
RECURSIVE forEachFrom(_, _, _, _, _)
forEachFrom(k, st, modes, s, noise) ==
  IF k > Len(pipelineOrder) THEN st
  ELSE LET mode == pipelineOrder[k]
       IN IF ~includes(modes, mode) THEN forEachFrom(k + 1, st, modes, s, noise)
          ELSE \* the stage's result r is computed once, before the next stage
               CHOOSE out \in
                 { IF r.ok
                     THEN forEachFrom(k + 1,
                            [canvas |-> r.canvas,
                             executed |-> Append(st.executed, mode),
                             threw |-> None,
                             handoffs |-> Append(st.handoffs,
                                [mode |-> mode, read |-> Dims(st.canvas),
                                 left |-> Dims(r.canvas)])],
                            modes, s, noise)
                     ELSE \* the exception leaves forEach and the callback
                          [st EXCEPT !.canvas = r.canvas, !.threw = Some(mode)]
                   : r \in {applyStage(mode, st.canvas, s, noise)} } : TRUE

(***************************************************************************)
(* Input files: the decoded bitmaps a user can select.                     *)
(***************************************************************************)
\* Files 1, 2 and 5 are the ones the component model uploads: file 1 is
\* 4 x 4, file 2 is 2 x 2 (smaller than the default pixelSize), file 5 has a
\* translucent pixel.  The others are further inputs of the pipeline: a 2 x 1 row, a 1 x 2 column, a 4 x 2 image
\* with bright runs in both rows, one black pixel, a 3 x 3 image with an
\* edge, a 4 x 4 image of one gray, and a 4 x 3 image whose left column is
\* bright.
FileImage(f) ==
  CASE f = 1 ->
         Bitmap(4, 4,
           [i \in 0..15 |->
              << Gray(20), Gray(200), Gray(60), Gray(240),
                 Gray(130), Px(250, 20, 30, 255), Gray(250), Gray(30),
                 Gray(220), Gray(100), Px(0, 160, 220, 255), Gray(180),
                 Gray(0), Gray(255), Gray(70), Gray(140) >>[i + 1]])
    [] f = 2 -> Bitmap(2, 2, [i \in 0..3 |-> << Gray(200), Gray(20), Gray(90), Gray(250) >>[i + 1]])
    [] f = 3 -> Bitmap(2, 1, [i \in 0..1 |-> << Gray(200), Gray(10) >>[i + 1]])
    [] f = 4 -> Bitmap(1, 2, [i \in 0..1 |-> << Gray(200), Gray(100) >>[i + 1]])
    [] f = 5 ->
         Bitmap(4, 2,
           [i \in 0..7 |->
              << Gray(230), Px(200, 90, 10, 128), Gray(60), Gray(170),
                 Gray(190), Gray(110), Px(10, 60, 250, 255), Gray(20) >>[i + 1]])
    [] f = 6 -> Bitmap(1, 1, [i \in 0..0 |-> Gray(0)])
    [] f = 7 ->
         Bitmap(3, 3,
           [i \in 0..8 |->
              << Gray(10), Gray(10), Gray(240),
                 Gray(10), Gray(10), Gray(240),
                 Gray(10), Gray(10), Gray(240) >>[i + 1]])
    [] f = 8 -> Bitmap(4, 4, [i \in 0..15 |-> Gray(128)])
    [] f = 9 -> Bitmap(4, 3, [i \in 0..11 |-> IF i % 4 = 0 THEN Gray(240) ELSE Gray(10)])

Files == {1, 2, 5}

maxDim == 1200

\* The w and h that img.onload stores (App.jsx 157-165); the canvas keeps the
\* integer part of a fractional size.
scaledSize(w, h) ==
  IF w > maxDim \/ h > maxDim
    THEN IF w > h THEN <<maxDim, (maxDim * h) \div w>> ELSE <<(maxDim * w) \div h, maxDim>>
    ELSE <<w, h>>

\* The object { img, w, h } that img.onload stores for selection sel of file f.
loadedImage(sel, f) ==
  LET size == scaledSize(FileImage(f).width, FileImage(f).height)
  IN [sel |-> sel, img |-> f, w |-> size[1], h |-> size[2]]

\* The stages of pipelineOrder whose identifier is in modes.
activeStages(modes) == SelectSeq(pipelineOrder, LAMBDA m : includes(modes, m))

\* A resize that keeps the bitmap when the size does not change.
resizeIfChanged(cv, w, h) == IF cv.width = w /\ cv.height = h THEN cv ELSE Blank(w, h)

\* canvasRef.current.width = w; canvasRef.current.height = h: assigning the
\* width or height of a canvas, even to the value it has, clears its bitmap
\* to transparent black and resets its context.
resize(cv, w, h) == Blank(w, h)

\* One channel of the source-over composite of s over d, for the alpha out
\* of the result (all on the scale 0..255).
Composite(sc, sa, dc, da, out) ==
  RoundDiv(sc * sa * 255 + dc * da * (255 - sa), out * 255)

\* globalCompositeOperation = 'source-over': the pixel s drawn over d.
sourceOver(s, d) ==
  IF s.a = 255 \/ d.a = 0 THEN s
  ELSE IF s.a = 0 THEN d
  ELSE LET out == s.a + RoundDiv(d.a * (255 - s.a), 255)
       IN Px(Composite(s.r, s.a, d.r, d.a, out), Composite(s.g, s.a, d.g, d.a, out),
             Composite(s.b, s.a, d.b, d.a, out), out)

\* ctx.drawImage of the bitmap src over the canvas bitmap dst of the same size.
drawOver(dst, src) ==
  Bitmap(dst.width, dst.height,
    [i \in 0..(dst.width * dst.height - 1) |-> sourceOver(src.data[i], dst.data[i])])

\* The whole callback, run on the canvas bitmap prev, for the values c that
\* the effect's closure captured.
runOn(prev, c, noise) ==
  forEachFrom(1,
    [canvas |-> drawOver(resize(prev, c.originalImage.w, c.originalImage.h),
                         baseDraw(FileImage(c.originalImage.img), c.originalImage.w,
                                  c.originalImage.h, c.isFlipped)),
     executed |-> << >>, threw |-> None, handoffs |-> << >>],
    c.activeModes.val, c.settings.val, noise)

\* The values (Math.random() - 0.5) * grain the model draws: both ends and
\* the middle of the interval, the same for every pixel or alternating.
noiseFns(c) ==
  LET n == c.originalImage.w * c.originalImage.h
      g == c.settings.val.grain
  IN IF includes(c.activeModes.val, "bw") /\ g > 0
       THEN { [i \in 0..(n - 1) |-> v] : v \in {-(g \div 2), 0, (g - 1) \div 2} }
              \cup { [i \in 0..(n - 1) |-> IF i % 2 = 0 THEN -(g \div 2) ELSE (g - 1) \div 2] }
       ELSE { [i \in 0..(n - 1) |-> 0] }

(***************************************************************************)
(* The component (App.jsx 39-178, 181-559).                                *)
(***************************************************************************)
VARIABLES
  originalImage,   \* null or [sel, img, w, h]: sel identifies the object
  previewUrl,      \* null or the encoded canvas
  isProcessing,
  isFlipped,
  activeModes,     \* [ref, val]
  settings,        \* [ref, val]
  presets,         \* slot 0..2 -> null or [activeModes, settings, isFlipped]
  glitchPresets,   \* localStorage item: null or the JSON text of presets
  canvas,          \* the bitmap of canvasRef.current
  timers,          \* the browser's pending timeouts: [id, closure]
  processTimer,    \* null or the timer id the latest effect's cleanup clears
  uploads,         \* file selections whose reader or image is still loading
  nextSel,         \* number of the next file selection
  ops,             \* user operations so far
  lastRun,         \* null or what the most recent timer callback did
  link             \* null or the last download: its href and the values at the click

vars == << originalImage, previewUrl, isProcessing, isFlipped, activeModes, settings,
           presets, glitchPresets, canvas, timers, processTimer, uploads, nextSel, ops,
           lastRun, link >>

\* The callback on the component's canvas, canvasRef.current.
runPipeline(c, noise) == runOn(canvas, c, noise)

MaxOps == 3

Slots == 0..2

\* The mode buttons, setting controls and preset slots the model operates.
ModeInputs == {"pixel", "bw", "sort", "dither", "crt"}
SettingInputs ==
  { <<"pixelSize", 2>>, <<"ditherAlgo", "bayer">>, <<"sortThreshold", 150>> }
SlotInputs == {0, 2}

\* JSON.stringify keeps the values and drops the identities.
stringify(ps) ==
  [i \in Slots |->
     IF IsSome(ps[i])
       THEN Some([activeModes |-> Get(ps[i]).activeModes.val,
                  settings |-> Get(ps[i]).settings.val,
                  isFlipped |-> Get(ps[i]).isFlipped])
       ELSE None]

\* The identities of the live arrays (field "activeModes") or objects (field
\* "settings"): the current one, those in the presets, those in closures.
liveRefs(field) ==
  {(IF field = "activeModes" THEN activeModes ELSE settings).ref}
    \cup { Get(presets[i])[field].ref : i \in { j \in Slots : IsSome(presets[j]) } }
    \cup { t.closure[field].ref : t \in timers }

\* The identity of a newly allocated array or object.
freshRef(field) == CHOOSE r \in 0..(Cardinality(liveRefs(field))) : r \notin liveRefs(field)

\* The id setTimeout returns: one that no pending timer and no cleanup holds.
freshTimer ==
  CHOOSE n \in 0..(Cardinality(timers) + 1) :
    Some(n) # processTimer /\ \A t \in timers : t.id # n

Init ==
  /\ originalImage = None
  /\ previewUrl = None
  /\ isProcessing = FALSE
  /\ isFlipped = FALSE
  /\ activeModes = [ref |-> 0, val |-> <<"pixel">>]
  /\ settings = [ref |-> 0, val |-> DefaultSettings]
  /\ presets = [i \in Slots |-> None]
  /\ glitchPresets = None
  /\ canvas = Blank(0, 0)
  /\ timers = {}
  /\ processTimer = None
  /\ uploads = {}
  /\ nextSel = 1
  /\ ops = 0
  /\ lastRun = None
  /\ link = None

\* A dependency list that leaves out isFlipped.
depsNoFlip(img, modes, sett, flipped) ==
  << IF IsSome(img) THEN Get(img).sel ELSE 0, modes.ref, sett.ref >>

\* The dependency list [originalImage, activeModes, settings, isFlipped] as
\* React compares it (Object.is): objects by identity, booleans by value.
deps(img, modes, sett, flipped) ==
  << IF IsSome(img) THEN Get(img).sel ELSE 0, modes.ref, sett.ref, flipped >>

\* clearTimeout(processTimer), the cleanup the previous effect returned
clearTimeout == { t \in timers : Some(t.id) # processTimer }

\* An effect that returns no cleanup: the earlier timeout stays pending.
useEffectNoCleanup(img, modes, sett, flipped) ==
  IF ~IsSome(img)
    THEN UNCHANGED << timers, processTimer, isProcessing >>
    ELSE /\ isProcessing' = TRUE
         /\ timers' = timers \cup
              {[id |-> freshTimer,
                closure |-> [originalImage |-> Get(img), activeModes |-> modes,
                             settings |-> sett, isFlipped |-> flipped]]}
         /\ processTimer' = Some(freshTimer)

\* An effect without the guard on originalImage.
useEffectNoGuard(img, modes, sett, flipped) ==
  /\ isProcessing' = TRUE
  /\ timers' = clearTimeout \cup
       {[id |-> freshTimer,
         closure |-> [originalImage |-> img, activeModes |-> modes,
                      settings |-> sett, isFlipped |-> flipped]]}
  /\ processTimer' = Some(freshTimer)

\* An effect that schedules the run without setIsProcessing(true).
useEffectNoStatus(img, modes, sett, flipped) ==
  IF ~IsSome(img)
    THEN /\ timers' = clearTimeout
         /\ processTimer' = None
         /\ UNCHANGED isProcessing
    ELSE /\ UNCHANGED isProcessing
         /\ timers' = clearTimeout \cup
              {[id |-> freshTimer,
                closure |-> [originalImage |-> Get(img), activeModes |-> modes,
                             settings |-> sett, isFlipped |-> flipped]]}
         /\ processTimer' = Some(freshTimer)

\* The effect for the rendered values: the previous effect's cleanup, then
\* the body (App.jsx 182-186, 557).
useEffect(img, modes, sett, flipped) ==
  IF ~IsSome(img)
    THEN /\ timers' = clearTimeout
         /\ processTimer' = None
         /\ UNCHANGED isProcessing
    ELSE /\ isProcessing' = TRUE
         /\ timers' = clearTimeout \cup
              {[id |-> freshTimer,
                closure |-> [originalImage |-> Get(img), activeModes |-> modes,
                             settings |-> sett, isFlipped |-> flipped]]}
         /\ processTimer' = Some(freshTimer)

\* The re-render after a handler set the four values: the effect runs when a
\* dependency changed.
render(img, modes, sett, flipped) ==
  /\ originalImage' = img
  /\ activeModes' = modes
  /\ settings' = sett
  /\ isFlipped' = flipped
  /\ IF deps(img, modes, sett, flipped) # deps(originalImage, activeModes, settings, isFlipped)
       THEN useEffect(img, modes, sett, flipped)
       ELSE UNCHANGED << timers, processTimer, isProcessing >>

UserOp == ops < MaxOps /\ ops' = ops + 1

toggleMode(modeId) ==
  /\ UserOp
  /\ render(originalImage,
            [ref |-> freshRef("activeModes"),
             val |-> IF includes(activeModes.val, modeId)
                       THEN SelectSeq(activeModes.val, LAMBDA m : m # modeId)
                       ELSE Append(activeModes.val, modeId)],
            settings, isFlipped)
  /\ UNCHANGED << previewUrl, presets, glitchPresets, canvas, uploads, nextSel, lastRun, link >>

\* The "Clear All Effects" button, rendered while activeModes is not empty.
clearAll ==
  /\ UserOp
  /\ Len(activeModes.val) > 0
  /\ render(originalImage, [ref |-> freshRef("activeModes"), val |-> << >>],
            settings, isFlipped)
  /\ UNCHANGED << previewUrl, presets, glitchPresets, canvas, uploads, nextSel, lastRun, link >>

updateSetting(key, value) ==
  /\ UserOp
  /\ render(originalImage, activeModes,
            [ref |-> freshRef("settings"), val |-> [settings.val EXCEPT ![key] = value]],
            isFlipped)
  /\ UNCHANGED << previewUrl, presets, glitchPresets, canvas, uploads, nextSel, lastRun, link >>

\* The flip button: setIsFlipped(!isFlipped)
flip ==
  /\ UserOp
  /\ render(originalImage, activeModes, settings, ~isFlipped)
  /\ UNCHANGED << previewUrl, presets, glitchPresets, canvas, uploads, nextSel, lastRun, link >>

\* The snapshot's timestamp is written and never read; the model omits it.
savePreset(index) ==
  /\ UserOp
  /\ presets' = [presets EXCEPT ![index] =
                   Some([activeModes |-> activeModes, settings |-> settings,
                         isFlipped |-> isFlipped])]
  /\ glitchPresets' = Some(stringify(presets'))
  /\ UNCHANGED << originalImage, previewUrl, isProcessing, isFlipped, activeModes, settings,
                  canvas, timers, processTimer, uploads, nextSel, lastRun, link >>

\* A load that restores activeModes and settings and leaves isFlipped as it is.
loadPresetKeepFlip(index) ==
  /\ UserOp
  /\ IsSome(presets[index])
  /\ render(originalImage, Get(presets[index]).activeModes, Get(presets[index]).settings,
            isFlipped)
  /\ UNCHANGED << previewUrl, presets, glitchPresets, canvas, uploads, nextSel, lastRun, link >>

loadPreset(index) ==
  /\ UserOp
  /\ IsSome(presets[index])
  /\ render(originalImage, Get(presets[index]).activeModes, Get(presets[index]).settings,
            Get(presets[index]).isFlipped)
  /\ UNCHANGED << previewUrl, presets, glitchPresets, canvas, uploads, nextSel, lastRun, link >>

\* A file is selected: a FileReader starts reading it.
handleImageUpload(f) ==
  /\ UserOp
  /\ uploads' = uploads \cup {[sel |-> nextSel, img |-> f, phase |-> "reading"]}
  /\ nextSel' = nextSel + 1
  /\ UNCHANGED << originalImage, previewUrl, isProcessing, isFlipped, activeModes, settings,
                  presets, glitchPresets, canvas, timers, processTimer, lastRun, link >>

\* reader.onload: the image starts decoding.
readerOnload(u) ==
  /\ u.phase = "reading"
  /\ uploads' = (uploads \ {u}) \cup {[u EXCEPT !.phase = "decoding"]}
  /\ UNCHANGED << originalImage, previewUrl, isProcessing, isFlipped, activeModes, settings,
                  presets, glitchPresets, canvas, timers, processTimer, nextSel, ops,
                  lastRun, link >>

\* img.onload: setOriginalImage({ img, w, h })
imgOnload(u) ==
  /\ u.phase = "decoding"
  /\ uploads' = uploads \ {u}
  /\ render(Some(loadedImage(u.sel, u.img)), activeModes, settings, isFlipped)
  /\ UNCHANGED << previewUrl, presets, glitchPresets, canvas, nextSel, ops, lastRun, link >>

\* The callback of the pending timeout t runs (App.jsx 186-555). An exception
\* thrown by a stage ends the callback before setPreviewUrl and
\* setIsProcessing(false). lastRun keeps, for the properties, the closure's
\* values, the component's values and the canvas when the callback started,
\* and what ran.
timerFires(t) ==
  /\ timers' = timers \ {t}
  /\ \E noise \in noiseFns(t.closure) :
       \E r \in {runPipeline(t.closure, noise)} :
          /\ canvas' = r.canvas
          /\ IF IsSome(r.threw)
               THEN UNCHANGED << previewUrl, isProcessing >>
               ELSE previewUrl' = Some(r.canvas) /\ isProcessing' = FALSE
          /\ lastRun' = Some([id |-> t.id,
                              first |-> ~IsSome(lastRun),
                              start |-> canvas,
                              closure |-> t.closure,
                              live |-> [originalImage |-> Get(originalImage),
                                        activeModes |-> activeModes,
                                        settings |-> settings,
                                        isFlipped |-> isFlipped],
                              noise |-> noise,
                              executed |-> r.executed,
                              threw |-> r.threw,
                              handoffs |-> r.handoffs])
  /\ UNCHANGED << originalImage, isFlipped, activeModes, settings, presets, glitchPresets,
                  processTimer, uploads, nextSel, ops, link >>

\* The Save Image button: disabled={!previewUrl || isProcessing}
saveEnabled == IsSome(previewUrl) /\ ~isProcessing

\* A click on the enabled Save Image button (App.jsx 172-178): the link's
\* href is canvasRef.current.toDataURL, the encoded bitmap of the canvas.
downloadImage ==
  /\ UserOp
  /\ saveEnabled
  /\ link' = Some([href |-> canvas,
                   values |-> [originalImage |-> Get(originalImage),
                               activeModes |-> activeModes, settings |-> settings,
                               isFlipped |-> isFlipped]])
  /\ UNCHANGED << originalImage, previewUrl, isProcessing, isFlipped, activeModes, settings,
                  presets, glitchPresets, canvas, timers, processTimer, uploads, nextSel,
                  lastRun >>

Next ==
  \/ \E modeId \in ModeInputs : toggleMode(modeId)
  \/ clearAll
  \/ \E kv \in SettingInputs : updateSetting(kv[1], kv[2])
  \/ flip
  \/ \E index \in SlotInputs : savePreset(index)
  \/ \E index \in SlotInputs : loadPreset(index)
  \/ \E f \in Files : handleImageUpload(f)
  \/ \E u \in uploads : readerOnload(u)
  \/ \E u \in uploads : imgOnload(u)
  \/ \E t \in timers : timerFires(t)
  \/ downloadImage

Spec == Init /\ [][Next]_vars

(***************************************************************************)
(* Runs on stored configurations.  The presets are read from localStorage  *)
(* at construction (App.jsx 49-56), so a loaded preset can hold values no  *)
(* control of the page offers.  InitPipe is the component after an image   *)
(* was selected and the preset of slot 0 was loaded: the run for the       *)
(* loaded values is pending.                                               *)
(***************************************************************************)
HexFFF == <<"#","f","f","f">>
ColourRed == <<"r","e","d">>

PipeImages == 1..9

PipeModes ==
  { <<"sort">>, <<"dither">>, <<"outline">>, <<"edge">>, <<"chromatic">>, <<"crt", "pixel">>,
    <<"dither", "sort">>, <<"crt", "outline", "bw">>, <<"chromatic", "dither", "halftone">>,
    pipelineOrder }

Default2 == [DefaultSettings EXCEPT !.pixelSize = 2]

PipeSettings ==
  {Default2, DefaultSettings, [DefaultSettings EXCEPT !.pixelSize = 64]}
    \cup { [Default2 EXCEPT !.sortThreshold = t, !.sortDirection = d] :
             t \in {50, 150}, d \in {"horizontal", "vertical"} }
    \cup { [Default2 EXCEPT !.ditherAlgo = a, !.ditherThreshold = t] :
             a \in {"floyd", "atkinson", "bayer", "threshold"},
             t \in {-1, 0, 127, 128, 255, 300} }
    \cup { [Default2 EXCEPT !.offset = o, !.direction = d] :
             o \in {-7, -1, 0, 1, 100}, d \in {"horizontal", "vertical"} }
    \cup { [Default2 EXCEPT !.ditherType = "duotone", !.colorA = c] : c \in {HexFFF, Hex1A1A1A} }
    \cup { [Default2 EXCEPT !.outlineColor = c, !.edgeColor = c] : c \in {ColourRed, HexFF0055} }
    \cup { [Default2 EXCEPT !.edgeMode = "white", !.edgeColor = HexFFF, !.grain = 10] }

InitPipe ==
  /\ \E f \in PipeImages : originalImage = Some(loadedImage(1, f))
  /\ previewUrl = None
  /\ isProcessing = TRUE
  /\ isFlipped \in BOOLEAN
  /\ activeModes \in { [ref |-> 1, val |-> m] : m \in PipeModes }
  /\ settings \in { [ref |-> 1, val |-> v] : v \in PipeSettings }
  /\ presets = [i \in Slots |->
                  IF i = 0 THEN Some([activeModes |-> activeModes, settings |-> settings,
                                      isFlipped |-> isFlipped])
                           ELSE None]
  /\ glitchPresets = Some(stringify(presets))
  /\ canvas = Blank(0, 0)
  /\ timers = {[id |-> 1,
                closure |-> [originalImage |-> Get(originalImage), activeModes |-> activeModes,
                             settings |-> settings, isFlipped |-> isFlipped]]}
  /\ processTimer = Some(1)
  /\ uploads = {}
  /\ nextSel = 2
  /\ ops = 2
  /\ lastRun = None
  /\ link = None

NextPipe == \E t \in timers : timerFires(t)

SpecPipe == InitPipe /\ [][NextPipe]_vars

(***************************************************************************)
(* Properties.                                                             *)
(***************************************************************************)
\* The values a closure created now would capture.
currentValues ==
  [originalImage |-> Get(originalImage), activeModes |-> activeModes,
   settings |-> settings, isFlipped |-> isFlipped]

\* The stages a run entered: those that ran to their end, then the one that
\* threw.
started(run) ==
  IF IsSome(run.threw) THEN Append(run.executed, Get(run.threw)) ELSE run.executed

\* C1: every run enters exactly the stages whose identifier is in the
\* activeModes it captured, each once, in the order of pipelineOrder; the
\* sequence depends on the set of active identifiers only.
C1_ExecutesActiveStages ==
  IsSome(lastRun) =>
    started(Get(lastRun)) = activeStages(Get(lastRun).closure.activeModes.val)

C4_RunCompletes ==
  (IsSome(originalImage) /\ timers = {}) => (~isProcessing /\ previewUrl = Some(canvas))

\* C5: while no image is present no timer exists, no callback has run, no
\* preview exists and isProcessing is false.
C5_NoImageIdle ==
  ~IsSome(originalImage) =>
    (timers = {} /\ ~IsSome(lastRun) /\ ~IsSome(previewUrl) /\ ~isProcessing)

\* Without an image a mode was toggled, a setting was updated and the image
\* was flipped.
C5_Witness ==
  /\ ~IsSome(originalImage)
  /\ activeModes.ref # 0
  /\ settings.ref # 0
  /\ isFlipped

\* The active stages of closure c whose colour hexToRgb cannot parse.
unparsable(c) ==
  LET s == c.settings.val
  IN { m \in Range(c.activeModes.val) :
         \/ m = "outline" /\ ~IsSome(hexToRgb(s.outlineColor))
         \/ m = "edge" /\ s.edgeMode = "color" /\ ~IsSome(hexToRgb(s.edgeColor))
         \/ m = "dither" /\ s.ditherType = "duotone"
              /\ (~IsSome(hexToRgb(s.colorA)) \/ ~IsSome(hexToRgb(s.colorB))) }

\* C6: a stage whose colour cannot be parsed does not throw; the run goes on
\* to the later stages.
C6_UnparsableColourTolerated ==
  IsSome(lastRun) =>
    ~(IsSome(Get(lastRun).threw) /\ Get(Get(lastRun).threw) \in unparsable(Get(lastRun).closure))

\* C7: in a run with the Pixelate stage the downsampled width and height are
\* both at least 1.
C7_TinyDimsPositive ==
  (IsSome(lastRun) /\ includes(Get(lastRun).closure.activeModes.val, "pixel")) =>
    /\ tinyW(canvas, Get(lastRun).closure.settings.val) >= 1
    /\ tinyH(canvas, Get(lastRun).closure.settings.val) >= 1

\* The closure c with ditherThreshold replaced by min(255, max(0, t)).
clampedThreshold(c) ==
  [c EXCEPT !.settings.val.ditherThreshold = Min(255, Max(0, @))]

\* C8: a run with the Dither stage leaves the canvas that the run with the
\* threshold clamped to 0..255 leaves.
C8_ThresholdClamped ==
  (IsSome(lastRun) /\ includes(Get(lastRun).closure.activeModes.val, "dither")) =>
    canvas = runPipeline(clampedThreshold(Get(lastRun).closure), Get(lastRun).noise).canvas

\* C9: every stage of a run reads a buffer of the width and height stored
\* with the image and leaves a buffer of that width and height.
C9_DimsConstant ==
  IsSome(lastRun) =>
    LET img == Get(lastRun).closure.originalImage
        size == <<img.w, img.h, img.w * img.h>>
        hs == Get(lastRun).handoffs
    IN /\ \A k \in 1..Len(hs) : hs[k].read = size /\ hs[k].left = size
       /\ Dims(canvas) = size

\* A completed run of Pixelate and at least two more stages on an image
\* that is not square.
C9_Witness ==
  /\ IsSome(lastRun)
  /\ ~IsSome(Get(lastRun).threw)
  /\ Len(Get(lastRun).handoffs) >= 3
  /\ Get(lastRun).handoffs[1].mode = "pixel"
  /\ Get(lastRun).closure.originalImage.w # Get(lastRun).closure.originalImage.h

\* A run of the PixelSort stage alone, in horizontal mode.
sortRun ==
  /\ IsSome(lastRun)
  /\ Get(lastRun).closure.activeModes.val = <<"sort">>
  /\ Get(lastRun).closure.settings.val.sortDirection = "horizontal"

\* The buffer the stages of the last run received from the base draw.
drawn ==
  LET c == Get(lastRun).closure
  IN baseDraw(FileImage(c.originalImage.img), c.originalImage.w, c.originalImage.h, c.isFlipped)

\* a pixel of the input above the threshold of the last run
bright(i) == Lum(drawn.data[i]) > Get(lastRun).closure.settings.val.sortThreshold * LumScale

\* The positions of the maximal run of bright pixels that holds position i:
\* the bright neighbours of i in its row with only bright pixels between.
runOf(i) ==
  LET w == drawn.width
      row == { j \in DOMAIN drawn.data : j \div w = i \div w }
  IN { j \in row : \A k \in row : (Min(i, j) <= k /\ k <= Max(i, j)) => bright(k) }

\* The colours at the positions ps of the bitmap bm, as a bag.
colours(bm, ps) ==
  LET rgb(j) == <<bm.data[j].r, bm.data[j].g, bm.data[j].b>>
  IN [c \in { rgb(j) : j \in ps } |-> Cardinality({ j \in ps : rgb(j) = c })]

\* C10: after PixelSort in horizontal mode the luminances of every maximal
\* run of pixels above the threshold are non-decreasing from left to right,
\* the run holds the colours it held (no run spans two rows), every pixel
\* outside the runs is the input pixel, and the 2 x 1 row of luminances 200
\* and 10 is unchanged for threshold 50.
C10_HorizontalSort ==
  sortRun =>
    /\ Dims(canvas) = Dims(drawn)
    /\ \A i \in DOMAIN drawn.data :
         IF bright(i)
           THEN /\ \A j \in runOf(i) : i <= j => Lum(canvas.data[i]) <= Lum(canvas.data[j])
                /\ colours(canvas, runOf(i)) = colours(drawn, runOf(i))
           ELSE canvas.data[i] = drawn.data[i]
    /\ (Get(lastRun).closure.originalImage.img = 3
          /\ Get(lastRun).closure.settings.val.sortThreshold = 50) => canvas = drawn

\* A horizontal sort that moved pixels inside a run and met a pixel outside
\* the runs, on an image with more than one row.
C10_Witness ==
  /\ sortRun
  /\ canvas # drawn
  /\ drawn.height > 1
  /\ \E i \in DOMAIN drawn.data : ~bright(i)
  /\ \E i \in DOMAIN drawn.data : Cardinality(runOf(i)) >= 2

\* A run of the Dither stage alone with ditherAlgo = threshold, ditherType = bw.
thresholdRun ==
  /\ IsSome(lastRun)
  /\ ~IsSome(Get(lastRun).threw)
  /\ Get(lastRun).closure.activeModes.val = <<"dither">>
  /\ Get(lastRun).closure.settings.val.ditherAlgo = "threshold"
  /\ Get(lastRun).closure.settings.val.ditherType = "bw"

\* C11: with ditherAlgo = threshold and ditherType = bw every output pixel is
\* opaque white when the luminance of the input pixel at its position exceeds
\* ditherThreshold and opaque black otherwise, whatever its coordinates and
\* the other pixels; the 4 x 4 image of gray 128 becomes all white for
\* threshold 127.
C11_FlatThreshold ==
  thresholdRun =>
    /\ Dims(canvas) = Dims(drawn)
    /\ \A i \in DOMAIN drawn.data :
         canvas.data[i] =
           IF Lum(drawn.data[i]) > Get(lastRun).closure.settings.val.ditherThreshold * LumScale
             THEN Px(255, 255, 255, 255) ELSE Px(0, 0, 0, 255)
    /\ (Get(lastRun).closure.originalImage.img = 8
          /\ Get(lastRun).closure.settings.val.ditherThreshold = 127)
         => \A i \in DOMAIN canvas.data : canvas.data[i] = Px(255, 255, 255, 255)

\* A flat-threshold run on the 4 x 4 image of mixed luminances that left
\* white and black pixels, a lit pixel lying left of and above a dark one.
C11_Witness ==
  /\ thresholdRun
  /\ Get(lastRun).closure.originalImage.img = 1
  /\ \E i, j \in DOMAIN canvas.data :
       /\ i < j
       /\ canvas.data[i] = Px(255, 255, 255, 255)
       /\ canvas.data[j] = Px(0, 0, 0, 255)

\* A completed run of the ChromaticShift stage alone.
chromaticRun ==
  /\ IsSome(lastRun)
  /\ ~IsSome(Get(lastRun).threw)
  /\ Get(lastRun).closure.activeModes.val = <<"chromatic">>

\* C12: in ChromaticShift, for every offset and both directions, the
\* coordinates sampled for the red and for the blue channel of every pixel
\* lie in 0 .. width-1 and 0 .. height-1; the output takes red and blue from
\* those coordinates, green from the pixel's own position, and alpha 255.
C12_SamplesInBounds ==
  chromaticRun =>
    LET s == Get(lastRun).closure.settings.val
        w == drawn.width
        h == drawn.height
    IN /\ Dims(canvas) = Dims(drawn)
       /\ \A i \in DOMAIN drawn.data :
            LET rs == redSample(drawn, s, i % w, i \div w)
                bs == blueSample(drawn, s, i % w, i \div w)
            IN /\ rs[1] \in 0..(w - 1) /\ rs[2] \in 0..(h - 1)
               /\ bs[1] \in 0..(w - 1) /\ bs[2] \in 0..(h - 1)
               /\ canvas.data[i].r = drawn.data[rs[2] * w + rs[1]].r
               /\ canvas.data[i].b = drawn.data[bs[2] * w + bs[1]].b
               /\ canvas.data[i].g = drawn.data[i].g
               /\ canvas.data[i].a = 255

\* A vertical shift by more than the buffer's width and height that changed
\* the image and made a translucent pixel opaque.
C12_Witness ==
  /\ chromaticRun
  /\ Get(lastRun).closure.settings.val.direction = "vertical"
  /\ Abs(Get(lastRun).closure.settings.val.offset) > drawn.width
  /\ Abs(Get(lastRun).closure.settings.val.offset) > drawn.height
  /\ \E i \in DOMAIN drawn.data : canvas.data[i].r # drawn.data[i].r
  /\ \E i \in DOMAIN drawn.data : drawn.data[i].a # 255

\* The live values a snapshot captures, identities included.
liveSnapshot == [activeModes |-> activeModes, settings |-> settings, isFlipped |-> isFlipped]

\* C13: a step alters at most one preset slot, and only by storing the live
\* activeModes, settings and isFlipped in it while leaving them as they are;
\* so the snapshot of slot i stays as saved through toggles, setting updates,
\* flips, loads and saves to other slots.  loadPreset(i) makes the live
\* values exactly the snapshot of slot i and alters no slot.
C13_PresetRoundTrip ==
  [][ /\ Cardinality({ i \in Slots : presets'[i] # presets[i] }) <= 1
      /\ \A i \in Slots :
           /\ presets'[i] # presets[i] =>
                /\ presets'[i] = Some(liveSnapshot)
                /\ UNCHANGED << activeModes, settings, isFlipped >>
           /\ loadPreset(i) =>
                /\ [activeModes |-> activeModes', settings |-> settings',
                    isFlipped |-> isFlipped'] = Get(presets[i])
                /\ presets' = presets ]_vars

\* Slot 0 holds a snapshot, the live values were changed after it was
\* saved (isFlipped differs from the snapshot's), and an operation is left
\* for the load.
C13_Witness ==
  /\ IsSome(presets[0])
  /\ Get(presets[0]).isFlipped # isFlipped
  /\ liveSnapshot # Get(presets[0])
  /\ ops < MaxOps

\* C14: with an image present, every loadPreset on a slot that holds a
\* snapshot schedules a timer that was not pending before the load.
C14_LoadSchedulesRun ==
  [][ \A i \in Slots :
        (IsSome(originalImage) /\ loadPreset(i)) => \E t \in timers' : t \notin timers ]_vars

\* C15: with grain = 0 the canvas a run leaves is the canvas the same run
\* leaves on a canvas nothing was drawn on before: it is a function of the
\* image, isFlipped, activeModes and settings the run read, whatever the
\* earlier runs left on the shared canvas.
C15_RunDeterminedByInputs ==
  (IsSome(lastRun) /\ Get(lastRun).closure.settings.val.grain = 0) =>
    canvas = runOn(Blank(0, 0), Get(lastRun).closure, Get(lastRun).noise).canvas

\* A completed run that started on a canvas of its own size holding the
\* opaque output of an earlier run, and drew a translucent pixel of its image
\* over it.
C15_Witness ==
  /\ IsSome(lastRun)
  /\ ~IsSome(Get(lastRun).threw)
  /\ ~Get(lastRun).first
  /\ Get(lastRun).closure.settings.val.grain = 0
  /\ Dims(Get(lastRun).start) = Dims(canvas)
  /\ Get(lastRun).start # canvas
  /\ \E i \in DOMAIN drawn.data :
       /\ Get(lastRun).start.data[i].a = 255
       /\ drawn.data[i].a \notin {0, 255}

\* C16: isProcessing is true exactly in the states where a run is scheduled
\* and its callback has not run yet, that is, where a timer is pending.
C16_StatusMatchesPending == isProcessing <=> (timers # {})

\* A completed run of the Dither stage alone with an error-diffusion
\* algorithm and ditherType = bw.
diffusionRun ==
  /\ IsSome(lastRun)
  /\ ~IsSome(Get(lastRun).threw)
  /\ Get(lastRun).closure.activeModes.val = <<"dither">>
  /\ Get(lastRun).closure.settings.val.ditherAlgo \in {"floyd", "atkinson"}
  /\ Get(lastRun).closure.settings.val.ditherType = "bw"

\* The offsets <<dx, dy>> of the pixels the branch of algo adds to.
kernel(algo) ==
  IF algo = "floyd"
    THEN { <<1, 0>>, <<-1, 1>>, <<0, 1>>, <<1, 1>> }
    ELSE { <<1, 0>>, <<2, 0>>, <<-1, 1>>, <<0, 1>>, <<1, 1>>, <<0, 2>> }

\* The sum of post[j] - pre[j] over the buffer positions 0 .. k.
RECURSIVE added(_, _, _)
added(pre, post, k) == IF k < 0 THEN 0 ELSE (post[k] - pre[k]) + added(pre, post, k - 1)

\* What the loop body did at pixel n, from the scan's state before (pre) and
\* after (post) it: pixel n is quantized against the threshold and no other
\* pixel is; the buffer changes only at kernel neighbours of n inside the
\* buffer, which the scan has not visited; and when all kernel neighbours are
\* inside, the changes sum to the error (Floyd-Steinberg) or to 6/8 of it
\* (Atkinson), within half a step of the buffer's number format for each
\* addition.
diffusedAt(pre, post, n, s, w, h) ==
  LET x == n % w
      y == n \div w
      oldVal == pre[2][n]
      newVal == IF oldVal > s.ditherThreshold * GrayUnit THEN 255 * GrayUnit ELSE 0
      error == oldVal - newVal
      sum == added(pre[2], post[2], w * h - 1)
      inside == \A d \in kernel(s.ditherAlgo) :
                  x + d[1] >= 0 /\ x + d[1] < w /\ y + d[2] < h
  IN /\ post[1][n] = (newVal = 255 * GrayUnit)
     /\ \A j \in 0..(w * h - 1) : j # n => post[1][j] = pre[1][j]
     /\ \A j \in 0..(w * h - 1) :
          post[2][j] # pre[2][j] =>
            /\ j > n
            /\ <<(j % w) - x, (j \div w) - y>> \in kernel(s.ditherAlgo)
     /\ inside =>
          IF s.ditherAlgo = "floyd"
            THEN Abs(sum - error) <= 2
            ELSE Abs(8 * sum - 6 * error) <= 24

\* C17: in error-diffusion dithering the pixels are quantized in raster
\* order, each pixel's error is added only to kernel neighbours not yet
\* visited, and for a pixel whose kernel neighbours all lie inside the buffer
\* the amounts added sum to the whole error for Floyd-Steinberg and to 6/8
\* of it for Atkinson; the output pixel is white exactly when the pixel was
\* quantized to 255.
C17_ErrorDiffusion ==
  diffusionRun =>
    LET s == Get(lastRun).closure.settings.val
        w == drawn.width
        h == drawn.height
    IN \A n \in 0..(w * h - 1) :
         /\ diffusedAt(ditherScan(drawn, s, n), ditherScan(drawn, s, n + 1), n, s, w, h)
         /\ canvas.data[n] =
              IF ditherScan(drawn, s, n + 1)[1][n]
                THEN Px(255, 255, 255, 255) ELSE Px(0, 0, 0, 255)

\* A Floyd-Steinberg run on a 4 x 4 image, which has pixels whose kernel
\* neighbours are all inside, that left white and black pixels and a white
\* pixel where the input luminance is not above the threshold.
C17_Witness ==
  /\ diffusionRun
  /\ Get(lastRun).closure.settings.val.ditherAlgo = "floyd"
  /\ drawn.width = 4
  /\ drawn.height = 4
  /\ \E i \in DOMAIN canvas.data : canvas.data[i] = Px(0, 0, 0, 255)
  /\ \E i \in DOMAIN canvas.data :
       /\ canvas.data[i] = Px(255, 255, 255, 255)
       /\ Lum(drawn.data[i]) <= Get(lastRun).closure.settings.val.ditherThreshold * LumScale

\* A completed run of the Outline stage alone with an outlineColor that
\* hexToRgb parses.
outlineRun ==
  /\ IsSome(lastRun)
  /\ ~IsSome(Get(lastRun).threw)
  /\ Get(lastRun).closure.activeModes.val = <<"outline">>
  /\ IsSome(hexToRgb(Get(lastRun).closure.settings.val.outlineColor))

\* The pixel the edge layer paints: outlineColor, opaque.
linePixel(s) ==
  Px(Get(hexToRgb(s.outlineColor)).r, Get(hexToRgb(s.outlineColor)).g,
     Get(hexToRgb(s.outlineColor)).b, 255)

\* Pixels i and j of a buffer of width w are at most r columns and r rows
\* apart.
within(i, j, w, r) ==
  /\ Abs((i % w) - (j % w)) <= r
  /\ Abs((i \div w) - (j \div w)) <= r

\* C18: after the Outline stage every pixel in outlineColor lies within
\* ceil(thickness / 2) columns and rows of an edge pixel of the edge map: no
\* square paints pixels of another row on the opposite side of the buffer.
C18_SquaresStayNearEdges ==
  outlineRun =>
    LET s == Get(lastRun).closure.settings.val
    IN \A i \in DOMAIN canvas.data :
         canvas.data[i] = linePixel(s) =>
           \E j \in { k \in DOMAIN drawn.data : edgeMap(drawn, s)[k] = 1 } :
             within(i, j, drawn.width, range(s))

\* A completed run of the PixelSort stage alone, in either direction.
sortOnlyRun ==
  /\ IsSome(lastRun)
  /\ ~IsSome(Get(lastRun).threw)
  /\ Get(lastRun).closure.activeModes.val = <<"sort">>

\* The positions of the rows (horizontal mode) or of the columns (any other
\* sortDirection) of a w x h buffer.
sortLines(w, h, direction) ==
  IF direction = "horizontal"
    THEN { { y * w + x : x \in 0..(w - 1) } : y \in 0..(h - 1) }
    ELSE { { y * w + x : y \in 0..(h - 1) } : x \in 0..(w - 1) }

\* The RGBA pixels at the positions ps of the bitmap bm, as a bag.
pixelsAt(bm, ps) ==
  [p \in { bm.data[j] : j \in ps } |-> Cardinality({ j \in ps : bm.data[j] = p })]

\* C19: after PixelSort every row (horizontal mode) or column (vertical
\* mode) holds the RGBA pixels it held before, in some order: alpha moves
\* with red, green and blue.
C19_SortMovesWholePixels ==
  sortOnlyRun =>
    \A line \in sortLines(drawn.width, drawn.height,
                          Get(lastRun).closure.settings.val.sortDirection) :
      pixelsAt(canvas, line) = pixelsAt(drawn, line)

\* C20: once every selected file has been read and decoded, the source image
\* is the one of the file that was selected last.
C20_LastSelectionWins ==
  (uploads = {} /\ nextSel > 1) =>
    /\ IsSome(originalImage)
    /\ Get(originalImage).sel = nextSel - 1

\* The canvas is the output of a run of the values c that ran to its end,
\* for one of the grain values the run can draw.
completedOutput(cv, c) ==
  \E noise \in noiseFns(c) :
    \E r \in {runOn(Blank(0, 0), c, noise)} : ~IsSome(r.threw) /\ r.canvas = cv

====
